---- MODULE Spec2Model ----
(***************************************************************************)
(* FordConnect client: the transport (utils.get/post/delete), the token    *)
(* gate (Client.check_authentication) and the submit/poll engine           *)
(* (Vehicle.__perform_job) as one sequential state machine.  One step is   *)
(* one statement group of the Python code between two observable events    *)
(* (an HTTP request, a sleep, a raise, a return).                          *)
(***************************************************************************)
EXTENDS Integers, Sequences, FiniteSets, TLC

\* ---------------------------------------------------------------- bounds
\* config.HTTP_MAX_RETRIES: bounds the transport loop and the poll loop.
HTTP_MAX_RETRIES == 2
\* The clock time.time() ranges over 0..MaxTime.
MaxTime == 1
\* The token endpoint issues at most MaxTok token generations.
MaxTok == 2

\* The values of a key of a vehicle object are 1..MaxVal.
MaxVal == 2

\* The server lists at most MaxList vehicles.
MaxList == 2

\* ------------------------------------------------------------ python values
\* None for the integer-valued fields (expirations, token generations).
None == 0 - 1

\* ------------------------------------------------------------ utils.py
\* Faulty variant: CommandFailed (406) not retryable.
can_retry_CommandFailedFatal(kind) ==
    kind \in {"TooManyRequests", "InternalServerError", "BadGateway", "CommandTimeOut"}

\* The exception classes and their can_retry class attribute.
can_retry(kind) ==
    CASE kind = "FordConnectError" -> FALSE
      [] kind = "BadRequest" -> FALSE
      [] kind = "Unauthorized" -> FALSE
      [] kind = "Forbidden" -> FALSE
      [] kind = "VehicleNotFound" -> FALSE
      [] kind = "MethodNotAllowed" -> FALSE
      [] kind = "UnsupportedMediaType" -> FALSE
      [] kind = "FailureDependency" -> FALSE
      [] kind = "TooManyRequests" -> TRUE
      [] kind = "InternalServerError" -> TRUE
      [] kind = "BadGateway" -> TRUE
      [] kind = "CommandTimeOut" -> TRUE
      [] kind = "CommandFailed" -> TRUE

\* The keys of HTTP_EXCEPTION_DICT.
HTTP_EXCEPTION_KEYS == {400, 401, 403, 404, 405, 415, 424, 429, 500, 502, 408, 406}

\* HTTP_EXCEPTION_DICT[code]; a code that is no key raises KeyError.
HTTP_EXCEPTION_DICT(code) ==
    CASE code = 400 -> "BadRequest"
      [] code = 401 -> "Unauthorized"
      [] code = 403 -> "Forbidden"
      [] code = 404 -> "VehicleNotFound"
      [] code = 405 -> "MethodNotAllowed"
      [] code = 415 -> "UnsupportedMediaType"
      [] code = 424 -> "FailureDependency"
      [] code = 429 -> "TooManyRequests"
      [] code = 500 -> "InternalServerError"
      [] code = 502 -> "BadGateway"
      [] code = 408 -> "CommandTimeOut"
      [] code = 406 -> "CommandFailed"
      [] OTHER -> "KeyError"

\* raise_http_exception(http_status_code, message): the exception raised.
raise_http_exception(http_status_code) == HTTP_EXCEPTION_DICT(http_status_code)

\* The status codes the server answers with: one below 400, every key of the
\* table, and one code >= 400 the table does not list.
StatusCodes == {200, 503} \cup HTTP_EXCEPTION_KEYS

\* Faulty variant: only informational codes pass.
IsOk_Below200(status_code) == status_code < 200

\* The test `response.status_code < 400` of get/post/delete.
IsOk(status_code) == status_code < 400

\* Faulty variant: 404 taken for retryable.
IsFatal_404Retried(status_code) ==
    status_code # 404 /\ can_retry(HTTP_EXCEPTION_DICT(status_code)) = FALSE

\* The test `HTTP_EXCEPTION_DICT[status_code].can_retry == False` (after the
\* lookup succeeded).
IsFatal(status_code) == can_retry(HTTP_EXCEPTION_DICT(status_code)) = FALSE

\* Faulty variant: one pass too many.
TransportContinue_OffByOne(n) == n <= HTTP_MAX_RETRIES

\* The loop condition `num_retries < HTTP_MAX_RETRIES` of get/post/delete.
TransportContinue(n) == n < HTTP_MAX_RETRIES

\* The code raised when the transport loop is exhausted.
TransportTimeoutCode == 408

\* ------------------------------------------------------------ models.py
\* The vehicle actions built on __perform_job.  update_from_vehicle, unlock,
\* start_engine, stop_engine, refresh_location and send_signal have the body
\* of lock with another URL; lock stands for them.
Actions == {"lock", "start_charge", "stop_charge"}

\* Faulty variant: stop_charge without the capability test.
EvOnly_StartOnly(a) == a = "start_charge"

\* The actions whose request/check functions test self.is_ev first.
EvOnly(a) == a \in {"start_charge", "stop_charge"}

\* Faulty variants: a status missing from each list.
TerminalSuccess_NoEmpty == {"COMPLETED"}

TerminalFailure_NoTimeout ==
    {"FAILED", "COMMUNICATIONFAILED", "MODEMINDEEPSLEEPMODE",
     "FIRMWAREUPGRADEINPROGRESS", "FAILEDDUETOINVEHICLESETTINGS"}

\* The `in [...]` tests of __perform_job on the command status.
TerminalSuccess == {"COMPLETED", "EMPTY"}

TerminalFailure ==
    {"TIMEOUT", "FAILED", "COMMUNICATIONFAILED", "MODEMINDEEPSLEEPMODE",
     "FIRMWAREUPGRADEINPROGRESS", "FAILEDDUETOINVEHICLESETTINGS"}

\* The commandStatus values the server answers with: the terminal ones, a
\* documented intermediate one and an unrecognized one.
CommandStatuses ==
    {"COMPLETED", "EMPTY", "TIMEOUT", "FAILED", "COMMUNICATIONFAILED",
     "MODEMINDEEPSLEEPMODE", "FIRMWAREUPGRADEINPROGRESS",
     "FAILEDDUETOINVEHICLESETTINGS", "PENDING", "QUEUED"}

\* The envelope status values of submit/check/delete responses.
EnvelopeStatuses == {"SUCCESS", "FAILED"}

\* Faulty variant: the envelope is not looked at.
EnvelopeOk_Always(status) == TRUE

\* The test `response['status'] == 'SUCCESS'` of the job helpers.
EnvelopeOk(status) == status = "SUCCESS"

\* The actions without a capability test.
PerformActions == {a \in Actions : ~EvOnly(a)}

\* The command identifiers the server issues.
CommandIds == {"c1", "c2"}

\* Faulty variant: the poll loop has no cap.
PollContinue_NoCap(n) == TRUE

\* Faulty variant: one poll too many.
PollContinue_OffByOne(n) == n <= HTTP_MAX_RETRIES

\* The loop condition `num_retries < HTTP_MAX_RETRIES` of __perform_job.
PollContinue(n) == n < HTTP_MAX_RETRIES

\* The value __perform_job returns after the refresh.
PerformJobResult(cid) == cid

\* Faulty variant: the token exchange goes through the gate.
ExchangeBypass_Off == FALSE

\* bypass_auth_check of the post in authenticate / refresh_access_token.
ExchangeBypass == TRUE

\* bypass_auth_check of the get/post/delete of the job helpers (the default).
JobBypass == FALSE

\* Engine types as character sequences; `'EV' in engineType` is a substring
\* test.
EngineTypes == {<<"I", "C", "E">>, <<"B", "E", "V">>, <<"P", "H", "E", "V">>}

ContainsEV(s) == \E i \in 1..(Len(s) - 1) : s[i] = "E" /\ s[i + 1] = "V"

PyBool(b) == IF b THEN "True" ELSE "False"

\* ------------------------------------------------------------ state
VARIABLES
    client,       \* Client: the token fields set by populate_authentication_info
    now,          \* the last value time.time() returned
    nextTok,      \* the token endpoint: number of token generations issued
    vehicle,      \* Vehicle: is_ev ("unset" while the attribute does not exist), is_detailed, raw_json
    obj,          \* the payload of the latest populate / populate_details
    vehicles,     \* Client.vehicles: the collection fetch_vehicles fills
    fetch,        \* fetch_vehicles: the server's list, the loop position, the collection at entry
    requests,     \* HTTP requests of the running invocation outside token exchanges, where counted
    op,           \* the public method the caller is in ("none" between calls)
    action,       \* the vehicle action of that method
    pc,           \* position in the code
    call,         \* the running get/post/delete: its arguments and locals
    saved,        \* the get/post/delete suspended in check_authentication
    headers,      \* the headers argument of the suspended or running job call
    gateDepth,    \* number of check_authentication invocations on the stack
    command_id,   \* __perform_job: command_id
    num_retries,  \* __perform_job: num_retries
    outcome,      \* "none", "returned", or the exception that reached the caller
    result,       \* the value returned to the caller
    hist,         \* what the current public call did so far (observation only)
    gate          \* what the last check_authentication did (observation only)

vars ==
    <<client, now, nextTok, vehicle, obj, vehicles, fetch, requests, op, action, pc, call, saved, headers,
      gateDepth, command_id, num_retries, outcome, result, hist, gate>>

\* Client.__init__: every token field is None.
ClientInit ==
    [access_token |-> None, refresh_token |-> None, id_token |-> None,
     token_expiration |-> None, refresh_token_expiration |-> None,
     token_type |-> None]

\* self.raw_json = None.
RawNone == [none |-> TRUE]

\* The keys of a vehicle object: vehicleId and color are read by populate,
\* lastUpdated by populate_details.
SnapshotKeys == {"vehicleId", "color", "lastUpdated"}

IdentityKeys == {"vehicleId", "color"}

DetailKeys == {"lastUpdated"}

\* The vehicle objects of the server's answers: every key, one value.
FullPayload == [k \in SnapshotKeys |-> 1]

\* Vehicle.__init__: raw_json None, is_detailed False; is_ev is not assigned.
VehicleInit == [is_ev |-> "unset", is_detailed |-> FALSE, raw_json |-> RawNone]

NoCall ==
    [purpose |-> "none", verb |-> "none", bypass |-> FALSE, num_retries |-> 0,
     reqs |-> 0, sleeps |-> 0, gates |-> 0, last |-> 0]

\* Entry of get/post/delete: num_retries = 0 (reqs, sleeps, gates, last count
\* the requests, sleeps, gate invocations and the last status of this call).
StartCall(purpose, verb, bypass) ==
    [purpose |-> purpose, verb |-> verb, bypass |-> bypass, num_retries |-> 0,
     reqs |-> 0, sleeps |-> 0, gates |-> 0, last |-> 0]

\* generate_header(): no Authorization field.
NoAuthHeaders == [auth |-> FALSE, token_type |-> None, access_token |-> None]

\* generate_header(..., 'Authorization': f'{token_type} {access_token}'),
\* evaluated by the caller before get/post/delete is entered.
AuthHeaders(c) ==
    [auth |-> TRUE, token_type |-> c.token_type, access_token |-> c.access_token]

HistInit ==
    [submits |-> 0, checks |-> 0, details |-> 0, lastStatus |-> "none",
     submitted |-> "none", checksAtDetail |-> 0, phase |-> "none",
     envelope |-> "none",
     raisedBy |-> "none", sent |-> FALSE, sentAuth |-> NoAuthHeaders,
     sentHeld |-> NoAuthHeaders]

\* t: the time the gate read; decision: the branch it took; auths,
\* refreshes: the exchanges it started; changed: a token field was assigned
\* since it was entered; before: the token fields at its entry (after a
\* completed exchange: at its exit).
GateInit ==
    [t |-> None, before |-> ClientInit, auths |-> 0, refreshes |-> 0,
     decision |-> "none", changed |-> FALSE]

\* fetch_vehicles is not running: no list, no position.
FetchInit == [list |-> <<>>, i |-> 0, before |-> <<>>]

Init ==
    /\ client = ClientInit
    /\ now = 0
    /\ nextTok = 0
    /\ vehicle = VehicleInit
    /\ obj = RawNone
    /\ vehicles = <<>>
    /\ fetch = FetchInit
    /\ requests = 0
    /\ op = "none"
    /\ action = "none"
    /\ pc = "idle"
    /\ call = NoCall
    /\ saved = NoCall
    /\ headers = NoAuthHeaders
    /\ gateDepth = 0
    /\ command_id = "none"
    /\ num_retries = 0
    /\ outcome = "none"
    /\ result = "none"
    /\ hist = HistInit
    /\ gate = GateInit

\* Faulty variant: an error of the transport during a check of __perform_job
\* is swallowed and the poll loop goes on.
Raise_CheckErrorSwallowed(kind, by, h) ==
    IF op = "perform" /\ h.phase = "check" /\ by \in {"transport", "exhausted"}
    THEN /\ pc' = "poll"
         /\ outcome' = "none"
         /\ result' = "none"
         /\ hist' = [h EXCEPT !.raisedBy = by]
    ELSE /\ pc' = "done"
         /\ outcome' = kind
         /\ result' = "none"
         /\ hist' = [h EXCEPT !.raisedBy = by]

\* An exception leaves every frame: nothing in models.py / utils.py catches
\* it on these paths.
Raise(kind, by, h) ==
    /\ pc' = "done"
    /\ outcome' = kind
    /\ result' = "none"
    /\ hist' = [h EXCEPT !.raisedBy = by]

\* A public method returns value v to the caller.
Return(v, h) ==
    /\ pc' = "done"
    /\ outcome' = "returned"
    /\ result' = v
    /\ hist' = h

\* ------------------------------------------------------------ job helpers
\* The test `self.is_ev == False` that opens request_/check_ of the charge
\* actions: "AttributeError" while is_ev does not exist, "MethodNotAllowed"
\* (raise_http_exception(405)) when it is False, "pass" otherwise.
CapabilityCheck(a, v) ==
    IF ~EvOnly(a) THEN "pass"
    ELSE IF v.is_ev = "unset" THEN "AttributeError"
    ELSE IF v.is_ev = "False" THEN raise_http_exception(405)
    ELSE "pass"

\* __submit_job up to the entry of post: the headers are built from the
\* token fields as they are now, then post is entered.
SubmitJob(h) ==
    /\ headers' = AuthHeaders(client)
    /\ call' = StartCall("submit", "post", JobBypass)
    /\ pc' = "enter"
    /\ hist' = [h EXCEPT !.submits = @ + 1, !.phase = "submit"]
    /\ UNCHANGED <<outcome, result>>

\* __check_job up to the entry of get.
CheckJob(h) ==
    /\ headers' = AuthHeaders(client)
    /\ call' = StartCall("check", "get", JobBypass)
    /\ pc' = "enter"
    /\ hist' = [h EXCEPT !.checks = @ + 1, !.phase = "check"]
    /\ UNCHANGED <<outcome, result>>

\* __delete_job up to the entry of delete.
DeleteJob(h) ==
    /\ headers' = AuthHeaders(client)
    /\ call' = StartCall("delete", "delete", JobBypass)
    /\ pc' = "enter"
    /\ hist' = [h EXCEPT !.phase = "delete"]
    /\ UNCHANGED <<outcome, result>>

\* update_from_server up to the entry of get.
UpdateFromServer(h) ==
    /\ headers' = AuthHeaders(client)
    /\ call' = StartCall("detail", "get", JobBypass)
    /\ pc' = "enter"
    /\ hist' = [h EXCEPT !.details = @ + 1, !.checksAtDetail = h.checks,
                         !.phase = "detail"]
    /\ UNCHANGED <<outcome, result>>

\* request_<action>(): the capability test, then __submit_job.
RequestFn(a, h) ==
    IF CapabilityCheck(a, vehicle) = "pass"
    THEN SubmitJob(h)
    ELSE /\ Raise(CapabilityCheck(a, vehicle), "capability", h)
         /\ UNCHANGED <<headers, call>>

\* check_<action>(command_id): the capability test, then __check_job.
CheckFn(a, h) ==
    IF CapabilityCheck(a, vehicle) = "pass"
    THEN CheckJob(h)
    ELSE /\ Raise(CapabilityCheck(a, vehicle), "capability", h)
         /\ UNCHANGED <<headers, call>>

\* ------------------------------------------------------------ public calls
\* <action>(): __perform_job(request_fn, check_fn) up to the end of
\* request_fn's preparation.
InvokeAction(a) ==
    /\ pc = "idle"
    /\ op' = "perform"
    /\ action' = a
    /\ RequestFn(a, hist)
    /\ UNCHANGED <<client, now, nextTok, vehicle, obj, saved, gateDepth, command_id,
                   num_retries, gate,
                   requests,
                   vehicles, fetch>>

\* request_<action>() called on its own.
InvokeRequest(a) ==
    /\ pc = "idle"
    /\ op' = "request"
    /\ action' = a
    /\ RequestFn(a, hist)
    /\ UNCHANGED <<client, now, nextTok, vehicle, obj, saved, gateDepth, command_id,
                   num_retries, gate,
                   requests,
                   vehicles, fetch>>

\* check_<action>(command_id) called on its own.
InvokeCheck(a, cid) ==
    /\ pc = "idle"
    /\ op' = "check"
    /\ action' = a
    /\ command_id' = cid
    /\ CheckFn(a, hist)
    /\ UNCHANGED <<client, now, nextTok, vehicle, obj, saved, gateDepth, num_retries,
                   gate,
                   requests,
                   vehicles, fetch>>

\* cancel_signal(command_id).
InvokeCancelSignal(cid) ==
    /\ pc = "idle"
    /\ op' = "cancel_signal"
    /\ command_id' = cid
    /\ DeleteJob(hist)
    /\ UNCHANGED <<client, now, nextTok, vehicle, obj, action, saved, gateDepth,
                   num_retries, gate,
                   requests,
                   vehicles, fetch>>

\* update_from_server() called on its own.
InvokeUpdateFromServer ==
    /\ pc = "idle"
    /\ op' = "update_from_server"
    /\ UpdateFromServer(hist)
    /\ UNCHANGED <<client, now, nextTok, vehicle, obj, action, saved, gateDepth,
                   command_id, num_retries, gate,
                   requests,
                   vehicles, fetch>>

\* `for key in obj: self.raw_json[key] = obj[key]`.
MergeJson(old, o) ==
    [k \in DOMAIN old \cup DOMAIN o |-> IF k \in DOMAIN o THEN o[k] ELSE old[k]]

\* populate(obj): the identity fields (not modelled), is_ev = False, and
\* raw_json: obj when it was None, merged when is_detailed, else left.
populate(v, o) ==
    [v EXCEPT !.is_ev = "False",
              !.raw_json = IF v.raw_json = RawNone THEN o
                           ELSE IF v.is_detailed THEN MergeJson(v.raw_json, o)
                           ELSE v.raw_json]

\* populate(o) called by the user with one of the given objects.
InvokePopulateOf(objects) ==
    /\ pc = "idle"
    /\ \E o \in objects :
        /\ vehicle' = populate(vehicle, o)
        /\ obj' = o
    /\ UNCHANGED <<client, now, nextTok, op, action, pc, call, saved, headers,
                   gateDepth, command_id, num_retries, outcome, result, hist,
                   gate,
                   requests,
                   vehicles, fetch>>

InvokePopulate == InvokePopulateOf({FullPayload})

\* authenticate(code) with a code given: up to the entry of post.
InvokeAuthenticate ==
    /\ pc = "idle"
    /\ op' = "authenticate"
    /\ headers' = NoAuthHeaders
    /\ call' = StartCall("authorization_code", "post", ExchangeBypass)
    /\ pc' = "enter"
    /\ hist' = [hist EXCEPT !.phase = "authenticate"]
    /\ UNCHANGED <<client, now, nextTok, vehicle, obj, action, saved, gateDepth,
                   command_id, num_retries, outcome, result, gate,
                   requests,
                   vehicles, fetch>>

\* The caller has the outcome; the frame's locals are gone.
Finish ==
    /\ pc = "done"
    /\ pc' = "idle"
    /\ op' = "none"
    /\ action' = "none"
    /\ call' = NoCall
    /\ saved' = NoCall
    /\ headers' = NoAuthHeaders
    /\ gateDepth' = 0
    /\ command_id' = "none"
    /\ num_retries' = 0
    /\ outcome' = "none"
    /\ result' = "none"
    /\ hist' = HistInit
    /\ gate' = GateInit
    /\ UNCHANGED <<client, now, nextTok, vehicle, obj, vehicles>>
    /\ fetch' = FetchInit
    /\ requests' = 0

\* ------------------------------------------------------------ transport
\* get/post/delete, first statement: `if bypass_auth_check == False:
\* client.check_authentication()`.
TransportEnter ==
    /\ pc = "enter"
    /\ IF call.bypass = FALSE
       THEN /\ pc' = "gate"
            /\ gateDepth' = gateDepth + 1
            /\ call' = [call EXCEPT !.gates = @ + 1]
            /\ gate' = [GateInit EXCEPT !.before = client]
       ELSE /\ pc' = "loop"
            /\ UNCHANGED <<gateDepth, call, gate>>
    /\ UNCHANGED <<client, now, nextTok, vehicle, obj, op, action, saved, headers,
                   command_id, num_retries, outcome, result, hist,
                   requests,
                   vehicles, fetch>>

\* Faulty variant: the access expiry is tested first.
GateDecision_AccessFirst(t, c) ==
    IF c.token_expiration = None \/ c.refresh_token_expiration = None THEN "TypeError"
    ELSE IF t >= c.token_expiration THEN "refresh_access_token"
    ELSE IF t >= c.refresh_token_expiration THEN "authenticate"
    ELSE "noop"

\* check_authentication: the branch taken at time t with token fields c.
\* Comparing a float with None raises TypeError.
GateDecision(t, c) ==
    IF c.refresh_token_expiration = None THEN "TypeError"
    ELSE IF t >= c.refresh_token_expiration THEN "authenticate"
    ELSE IF c.token_expiration = None THEN "TypeError"
    ELSE IF t >= c.token_expiration THEN "refresh_access_token"
    ELSE "noop"

\* What the user pastes when authenticate() runs without a code:
\* code.split('code=')[1] raises IndexError when the text holds no 'code='.
CodeInputs == {"with_code", "without_code"}

\* check_authentication: curr_time = time.time(), then the branch; the
\* exchange of the taken branch starts with the entry of its post.
CheckAuthentication ==
    /\ pc = "gate"
    /\ \E t \in now..MaxTime :
        /\ now' = t
        /\ LET d == GateDecision(t, client) IN
           CASE d = "TypeError" ->
                  /\ gate' = [gate EXCEPT !.t = t, !.decision = d]
                  /\ Raise("TypeError", "gate", hist)
                  /\ UNCHANGED <<call, saved, gateDepth>>
             [] d = "authenticate" ->
                  /\ gate' = [gate EXCEPT !.t = t, !.decision = d, !.auths = @ + 1]
                  /\ \E input \in CodeInputs :
                       IF input = "without_code"
                       THEN /\ Raise("IndexError", "gate", hist)
                            /\ UNCHANGED <<call, saved, gateDepth>>
                       ELSE /\ saved' = call
                            /\ call' = StartCall("authorization_code", "post", ExchangeBypass)
                            /\ pc' = "enter"
                            /\ UNCHANGED <<gateDepth, outcome, result, hist>>
             [] d = "refresh_access_token" ->
                  /\ gate' = [gate EXCEPT !.t = t, !.decision = d, !.refreshes = @ + 1]
                  /\ saved' = call
                  /\ call' = StartCall("refresh_token", "post", ExchangeBypass)
                  /\ pc' = "enter"
                  /\ UNCHANGED <<gateDepth, outcome, result, hist>>
             [] d = "noop" ->
                  /\ gate' = [gate EXCEPT !.t = t, !.decision = d]
                  /\ pc' = "loop"
                  /\ gateDepth' = gateDepth - 1
                  /\ UNCHANGED <<call, saved, outcome, result, hist>>
    /\ UNCHANGED <<client, nextTok, vehicle, obj, op, action, headers, command_id,
                   num_retries,
                   requests,
                   vehicles, fetch>>

IsExchange(c) == c.purpose \in {"authorization_code", "refresh_token"}

\* One pass of the while loop of get/post/delete: the request, the tests on
\* response.status_code, and for a retryable status `num_retries += 1;
\* time.sleep(HTTP_RETRY_INTERVAL)`.
Attempt(verb) ==
    /\ pc = "loop"
    /\ call.verb = verb
    /\ TransportContinue(call.num_retries)
    /\ \E status_code \in StatusCodes :
        \* the token endpoint answers below 400 only while it can issue a token
        /\ (IsExchange(call) /\ IsOk(status_code)) => nextTok < MaxTok
        /\ LET c == [call EXCEPT !.reqs = @ + 1, !.last = status_code]
               h == IF IsExchange(call) THEN hist
                    ELSE [hist EXCEPT !.sent = TRUE, !.sentAuth = headers,
                                      !.sentHeld = AuthHeaders(client)]
           IN
           IF IsOk(status_code)
           THEN /\ call' = c
                /\ pc' = "ret"
                /\ hist' = h
                /\ UNCHANGED <<outcome, result>>
           ELSE IF status_code \notin HTTP_EXCEPTION_KEYS
           THEN /\ call' = c
                /\ Raise("KeyError", "transport", h)
           ELSE IF IsFatal(status_code)
           THEN /\ call' = c
                /\ Raise(raise_http_exception(status_code), "transport", h)
           ELSE /\ call' = [c EXCEPT !.num_retries = @ + 1, !.sleeps = @ + 1]
                /\ pc' = "loop"
                /\ hist' = h
                /\ UNCHANGED <<outcome, result>>
    /\ UNCHANGED <<client, now, nextTok, vehicle, obj, op, action, saved, headers,
                   gateDepth, command_id, num_retries, gate,
                   vehicles, fetch>>

get == Attempt("get") /\ UNCHANGED requests

post == Attempt("post") /\ UNCHANGED requests

delete == Attempt("delete") /\ UNCHANGED requests

\* The same pass with the request counted when the call is no token
\* exchange.
AttemptCounted(verb) ==
    /\ Attempt(verb)
    /\ requests' = IF IsExchange(call) THEN requests ELSE requests + 1

getCounted == AttemptCounted("get")

postCounted == AttemptCounted("post")

\* The statement after the while loop of get/post/delete.
TransportTimeout ==
    /\ pc = "loop"
    /\ ~TransportContinue(call.num_retries)
    /\ Raise(raise_http_exception(TransportTimeoutCode), "exhausted", hist)
    /\ UNCHANGED <<client, now, nextTok, vehicle, obj, op, action, call, saved,
                   headers, gateDepth, command_id, num_retries, gate,
                   requests,
                   vehicles, fetch>>

\* ------------------------------------------------------------ token exchange
ExpiresOnValues == 0..(MaxTime + 1)

NotBeforeValues == 0..1

RefreshExpiresInValues == 0..MaxTime

\* The six assignments of populate_authentication_info in order; reading a
\* key the response lacks raises KeyError after k of them were made (k = 6:
\* every key is there).
TokenFields == 6

populate_authentication_info(c, response, k) ==
    [access_token |-> IF k >= 1 THEN response.access_token ELSE c.access_token,
     refresh_token |-> IF k >= 2 THEN response.refresh_token ELSE c.refresh_token,
     id_token |-> IF k >= 3 THEN response.id_token ELSE c.id_token,
     token_expiration |-> IF k >= 4 THEN response.expires_on ELSE c.token_expiration,
     refresh_token_expiration |->
         IF k >= 5 THEN response.not_before + response.refresh_token_expires_in
         ELSE c.refresh_token_expiration,
     token_type |-> IF k >= 6 THEN response.token_type ELSE c.token_type]

\* How many of the six assignments a response lets through: the token
\* endpoint's answers carry every key.
KeysRead == {TokenFields}

\* The token endpoint's answer number g: fresh tokens, server-chosen times.
TokenResponses(g) ==
    [access_token : {g}, refresh_token : {g}, id_token : {g}, token_type : {g},
     expires_on : ExpiresOnValues, not_before : NotBeforeValues,
     refresh_token_expires_in : RefreshExpiresInValues]

\* authenticate / refresh_access_token after their post returned:
\* populate_authentication_info(response), then back to the caller, which is
\* the user or check_authentication inside a get/post/delete.
PopulateAuthenticationInfoOf(keys) ==
    /\ pc = "ret"
    /\ IsExchange(call)
    /\ nextTok' = nextTok + 1
    /\ \E response \in TokenResponses(nextTok + 1), k \in keys :
        /\ client' = populate_authentication_info(client, response, k)
        /\ IF k < TokenFields
           THEN /\ Raise("KeyError", "populate", hist)
                /\ UNCHANGED <<call, saved, gateDepth>>
           ELSE IF gateDepth = 0
           THEN /\ Return("none", hist)
                /\ UNCHANGED <<call, saved, gateDepth>>
           ELSE /\ call' = saved
                /\ saved' = NoCall
                /\ gateDepth' = gateDepth - 1
                /\ pc' = "loop"
                /\ UNCHANGED <<outcome, result, hist>>
    /\ gate' = [gate EXCEPT !.changed = TRUE,
                            !.before = IF gateDepth = 0 THEN @ ELSE client']
    /\ UNCHANGED <<now, vehicle, obj, op, action, headers, command_id, num_retries,
                   requests,
                   vehicles, fetch>>

\* The exchange answered with a complete response.
PopulateAuthenticationInfo == PopulateAuthenticationInfoOf(KeysRead)

\* The exchange answered with a response that may lack keys: the first k
\* assignments are made, the next read raises KeyError.
PopulateAuthenticationInfoPartial == PopulateAuthenticationInfoOf(0..TokenFields)

\* ------------------------------------------------------------ job returns
\* __submit_job after post returned: the envelope test; in __perform_job the
\* returned id becomes command_id and the poll loop starts.
SubmitJobReturn ==
    /\ pc = "ret"
    /\ call.purpose = "submit"
    /\ \E status \in EnvelopeStatuses, commandId \in CommandIds :
        LET h == [hist EXCEPT !.envelope = status] IN
        IF EnvelopeOk(status)
        THEN IF op = "perform"
             THEN /\ command_id' = commandId
                  /\ num_retries' = 0
                  /\ pc' = "poll"
                  /\ hist' = [h EXCEPT !.submitted = commandId]
                  /\ UNCHANGED <<outcome, result>>
             ELSE /\ Return(commandId, [h EXCEPT !.submitted = commandId])
                  /\ UNCHANGED <<command_id, num_retries>>
        ELSE /\ Raise(raise_http_exception(406), "submit", h)
             /\ UNCHANGED <<command_id, num_retries>>
    /\ UNCHANGED <<client, now, nextTok, vehicle, obj, op, action, call, saved,
                   headers, gateDepth, gate,
                   requests,
                   vehicles, fetch>>

\* The head of the while loop of __perform_job with the condition true:
\* check_fn(command_id) up to the entry of its get.
PollCheck ==
    /\ pc = "poll"
    /\ PollContinue(num_retries)
    /\ CheckFn(action, hist)
    /\ UNCHANGED <<client, now, nextTok, vehicle, obj, op, action, saved, gateDepth,
                   command_id, num_retries, gate,
                   requests,
                   vehicles, fetch>>

\* The statement after the while loop of __perform_job.
PollTimeout ==
    /\ pc = "poll"
    /\ ~PollContinue(num_retries)
    /\ Raise(raise_http_exception(408), "poll", hist)
    /\ UNCHANGED <<client, now, nextTok, vehicle, obj, op, action, call, saved,
                   headers, gateDepth, command_id, num_retries, gate,
                   requests,
                   vehicles, fetch>>

\* __check_job after get returned: the envelope test; in __perform_job the
\* three branches on command_status.
CheckJobReturn ==
    /\ pc = "ret"
    /\ call.purpose = "check"
    /\ \E status \in EnvelopeStatuses, command_status \in CommandStatuses :
        IF ~EnvelopeOk(status)
        THEN /\ Raise(raise_http_exception(406), "check",
                      [hist EXCEPT !.envelope = status])
             /\ UNCHANGED <<call, headers, num_retries>>
        ELSE LET h == [hist EXCEPT !.envelope = status,
                                   !.lastStatus = command_status] IN
             IF op # "perform"
             THEN /\ Return(command_status, h)
                  /\ UNCHANGED <<call, headers, num_retries>>
             ELSE IF command_status \in TerminalSuccess
             THEN /\ UpdateFromServer(h)
                  /\ UNCHANGED num_retries
             ELSE IF command_status \in TerminalFailure
             THEN /\ Raise(raise_http_exception(406), "status", h)
                  /\ UNCHANGED <<call, headers, num_retries>>
             ELSE /\ num_retries' = num_retries + 1
                  /\ pc' = "poll"
                  /\ hist' = h
                  /\ UNCHANGED <<call, headers, outcome, result>>
    /\ UNCHANGED <<client, now, nextTok, vehicle, obj, op, action, saved, gateDepth,
                   command_id, gate,
                   requests,
                   vehicles, fetch>>

\* __delete_job after delete returned.
DeleteJobReturn ==
    /\ pc = "ret"
    /\ call.purpose = "delete"
    /\ \E status \in EnvelopeStatuses, command_status \in CommandStatuses :
        IF EnvelopeOk(status)
        THEN Return(command_status, [hist EXCEPT !.envelope = status,
                                                 !.lastStatus = command_status])
        ELSE Raise(raise_http_exception(406), "delete",
                   [hist EXCEPT !.envelope = status])
    /\ UNCHANGED <<client, now, nextTok, vehicle, obj, op, action, call, saved,
                   headers, gateDepth, command_id, num_retries, gate,
                   requests,
                   vehicles, fetch>>

\* populate_details(obj): is_ev from the engine type, is_detailed = True.
populate_details(v, o, engineType) ==
    [v EXCEPT !.is_ev = PyBool(ContainsEV(engineType)), !.raw_json = o,
              !.is_detailed = TRUE]

\* update_from_server after get returned: populate_details; in
\* __perform_job then `return command_id`.
UpdateFromServerReturn ==
    /\ pc = "ret"
    /\ call.purpose = "detail"
    /\ \E engineType \in EngineTypes :
        vehicle' = populate_details(vehicle, FullPayload, engineType)
    /\ obj' = FullPayload
    /\ IF op = "perform"
       THEN Return(PerformJobResult(command_id), hist)
       ELSE Return("none", hist)
    /\ UNCHANGED <<client, now, nextTok, op, action, call, saved, headers,
                   gateDepth, command_id, num_retries, gate,
                   requests,
                   vehicles, fetch>>

Next ==
    \/ \E a \in Actions : InvokeAction(a)
    \/ \E a \in Actions : InvokeRequest(a)
    \/ \E a \in Actions, cid \in CommandIds : InvokeCheck(a, cid)
    \/ \E cid \in CommandIds : InvokeCancelSignal(cid)
    \/ InvokeUpdateFromServer
    \/ InvokePopulate
    \/ InvokeAuthenticate
    \/ TransportEnter
    \/ CheckAuthentication
    \/ get
    \/ post
    \/ delete
    \/ TransportTimeout
    \/ PopulateAuthenticationInfo
    \/ SubmitJobReturn
    \/ PollCheck
    \/ PollTimeout
    \/ CheckJobReturn
    \/ DeleteJobReturn
    \/ UpdateFromServerReturn
    \/ Finish

Spec == Init /\ [][Next]_vars

\* The token life cycle alone, with token responses that may lack keys:
\* authenticate(code) by the user and the exchanges the gate starts inside
\* update_from_server.
NextTokens ==
    \/ InvokeAuthenticate
    \/ InvokeUpdateFromServer
    \/ TransportEnter
    \/ CheckAuthentication
    \/ get
    \/ post
    \/ TransportTimeout
    \/ PopulateAuthenticationInfoPartial
    \/ UpdateFromServerReturn
    \/ Finish

SpecTokens == Init /\ [][NextTokens]_vars

\* The vehicle actions alone, on an authenticated client, with the HTTP
\* requests of each invocation counted.
NextPerform ==
    \/ InvokeAuthenticate
    \/ \E a \in PerformActions : InvokeAction(a)
    \/ TransportEnter
    \/ CheckAuthentication
    \/ getCounted
    \/ postCounted
    \/ TransportTimeout
    \/ PopulateAuthenticationInfo
    \/ SubmitJobReturn
    \/ PollCheck
    \/ PollTimeout
    \/ CheckJobReturn
    \/ UpdateFromServerReturn
    \/ Finish

SpecPerform == Init /\ [][NextPerform]_vars

\* The vehicle ids the server knows.
VehicleIds == {"v1", "v2"}

\* response['vehicles'] of the list request.
VehicleLists == UNION {[1..n -> VehicleIds] : n \in 0..MaxList}

\* The object fetch_vehicles appends for a listed id: Vehicle(self, id),
\* populate(vehicle), then update_from_server's populate_details.
FetchedVehicle(id, engineType) ==
    [id |-> id,
     v |-> populate_details(populate(VehicleInit, FullPayload), FullPayload,
                            engineType)]

\* update_from_server of the vehicle at position i of the list, up to the
\* entry of its get.
FetchDetail(i) ==
    /\ headers' = AuthHeaders(client)
    /\ call' = StartCall("fetch_detail", "get", JobBypass)
    /\ pc' = "enter"
    /\ UNCHANGED <<outcome, result, hist>>

\* fetch_vehicles(): the headers, then the entry of the list request's get.
InvokeFetchVehicles ==
    /\ pc = "idle"
    /\ op' = "fetch_vehicles"
    /\ headers' = AuthHeaders(client)
    /\ call' = StartCall("list", "get", JobBypass)
    /\ pc' = "enter"
    /\ fetch' = [list |-> <<>>, i |-> 0, before |-> vehicles]
    /\ hist' = [hist EXCEPT !.phase = "list"]
    /\ UNCHANGED <<client, now, nextTok, vehicle, obj, vehicles, requests,
                   action, saved, gateDepth, command_id, num_retries, outcome,
                   result, gate>>

\* fetch_vehicles after the list request returned: `self.vehicles = []`,
\* then the for loop: with an empty list the method returns, else the first
\* vehicle is created, populated and its update_from_server entered.
FetchListReturn ==
    /\ pc = "ret"
    /\ call.purpose = "list"
    /\ vehicles' = <<>>
    /\ \E list \in VehicleLists :
        /\ fetch' = [fetch EXCEPT !.list = list,
                                  !.i = IF list = <<>> THEN 0 ELSE 1]
        /\ IF list = <<>>
           THEN /\ Return("none", hist)
                /\ UNCHANGED <<call, headers>>
           ELSE FetchDetail(1)
    /\ UNCHANGED <<client, now, nextTok, vehicle, obj, requests, op, action,
                   saved, gateDepth, command_id, num_retries, gate>>

\* The detail request of the vehicle at position fetch.i returned:
\* populate_details, `self.vehicles.append(vehicle_obj)`, then the next
\* vehicle of the list or the end of the method.
FetchDetailReturn ==
    /\ pc = "ret"
    /\ call.purpose = "fetch_detail"
    /\ \E engineType \in EngineTypes :
        vehicles' = Append(vehicles, FetchedVehicle(fetch.list[fetch.i], engineType))
    /\ IF fetch.i = Len(fetch.list)
       THEN /\ Return("none", hist)
            /\ UNCHANGED <<call, headers, fetch>>
       ELSE /\ FetchDetail(fetch.i + 1)
            /\ fetch' = [fetch EXCEPT !.i = @ + 1]
    /\ UNCHANGED <<client, now, nextTok, vehicle, obj, requests, op, action,
                   saved, gateDepth, command_id, num_retries, gate>>

\* fetch_vehicles on a client that authenticates, with every call it makes.
NextFetch ==
    \/ InvokeAuthenticate
    \/ InvokeFetchVehicles
    \/ TransportEnter
    \/ CheckAuthentication
    \/ get
    \/ post
    \/ TransportTimeout
    \/ PopulateAuthenticationInfo
    \/ FetchListReturn
    \/ FetchDetailReturn
    \/ Finish

SpecFetch == Init /\ [][NextFetch]_vars

\* The values a key of a vehicle object can carry.
JsonValues == 1..MaxVal

\* The objects populate accepts: the keys it reads are there.
IdentityObjects ==
    UNION {[D -> JsonValues] : D \in {D \in SUBSET SnapshotKeys : IdentityKeys \subseteq D}}

\* The objects populate_details accepts: the keys it reads are there.
DetailObjects ==
    UNION {[D -> JsonValues] : D \in {D \in SUBSET SnapshotKeys : DetailKeys \subseteq D}}

\* populate(o) with any object it accepts.
PopulateAny == InvokePopulateOf(IdentityObjects)

\* populate_details(o) called by the user with any object it accepts.
PopulateDetailsAny ==
    /\ pc = "idle"
    /\ \E o \in DetailObjects, engineType \in EngineTypes :
        /\ vehicle' = populate_details(vehicle, o, engineType)
        /\ obj' = o
    /\ UNCHANGED <<client, now, nextTok, op, action, pc, call, saved, headers,
                   gateDepth, command_id, num_retries, outcome, result, hist,
                   gate,
                   requests,
                   vehicles, fetch>>

\* The snapshot of one vehicle under any sequence of identity and detail
\* updates.
NextSnapshot ==
    \/ PopulateAny
    \/ PopulateDetailsAny

SpecSnapshot == Init /\ [][NextSnapshot]_vars

\* ================================================================ properties
\* The vocabulary of the specification, written out independently of the
\* definitions above.
SuccessStatuses == {"COMPLETED", "EMPTY"}

FailureStatuses ==
    {"TIMEOUT", "FAILED", "COMMUNICATIONFAILED", "MODEMINDEEPSLEEPMODE",
     "FIRMWAREUPGRADEINPROGRESS", "FAILEDDUETOINVEHICLESETTINGS"}

RetryableCodes == {406, 408, 429, 500, 502}

NonRetryableCodes == {400, 401, 403, 404, 405, 415, 424}

NamedError(code) ==
    CASE code = 400 -> "BadRequest"
      [] code = 401 -> "Unauthorized"
      [] code = 403 -> "Forbidden"
      [] code = 404 -> "VehicleNotFound"
      [] code = 405 -> "MethodNotAllowed"
      [] code = 415 -> "UnsupportedMediaType"
      [] code = 424 -> "FailureDependency"

ChargeActions == {"start_charge", "stop_charge"}

\* C1 -- Poll loop, success path.  In __perform_job, once a check has
\* returned COMPLETED or EMPTY (necessarily the first terminal value, within
\* HTTP_MAX_RETRIES checks): update_from_server has been called exactly
\* once, it was called after that check (never before a terminal-success
\* check), no check call follows it, and the engine returns the command id
\* that submit returned unless the refresh call itself raised.
C1_PollSuccess ==
    op = "perform" =>
        /\ hist.details <= 1
        /\ hist.details = 1 <=> hist.lastStatus \in SuccessStatuses
        /\ hist.details = 1 => hist.checks = hist.checksAtDetail
        /\ hist.lastStatus \in SuccessStatuses =>
              /\ hist.checks <= HTTP_MAX_RETRIES
              /\ hist.submitted = command_id
              /\ pc = "done" =>
                    \/ outcome = "returned" /\ result = hist.submitted
                    \/ outcome # "returned" /\ hist.phase = "detail"
                       /\ hist.raisedBy \in {"transport", "exhausted", "gate", "populate"}
        /\ outcome = "returned" =>
              /\ hist.lastStatus \in SuccessStatuses
              /\ result = hist.submitted

\* Success on the last allowed poll, after intermediate values.
C1_Witness ==
    /\ op = "perform"
    /\ pc = "done"
    /\ outcome = "returned"
    /\ result = "c2"
    /\ hist.lastStatus = "EMPTY"
    /\ hist.checks = HTTP_MAX_RETRIES
    /\ hist.details = 1

\* C2 -- Poll loop, failure path.  In __perform_job, a check that returns
\* one of the six terminal-failure values ends the engine at that poll with
\* CommandFailed (406): no refresh was or is triggered and no check follows.
C2_PollFailure ==
    (op = "perform" /\ hist.lastStatus \in FailureStatuses) =>
        /\ pc = "done"
        /\ outcome = "CommandFailed"
        /\ hist.raisedBy = "status"
        /\ hist.details = 0
        /\ hist.checks <= HTTP_MAX_RETRIES

\* A failure value on the second poll.
C2_Witness ==
    /\ op = "perform"
    /\ pc = "done"
    /\ hist.lastStatus = "TIMEOUT"
    /\ hist.checks = 2
    /\ outcome = "CommandFailed"

\* C3 -- Poll loop, timeout path.  In __perform_job, never more than
\* HTTP_MAX_RETRIES checks are issued; after HTTP_MAX_RETRIES intermediate
\* values the engine issues no further check and raises CommandTimeOut
\* (408), having triggered no refresh; and it raises the poll timeout only
\* then.
C3_PollTimeout ==
    op = "perform" =>
        /\ hist.checks <= HTTP_MAX_RETRIES
        /\ num_retries <= hist.checks
        /\ (num_retries = HTTP_MAX_RETRIES) =>
              /\ hist.checks = HTTP_MAX_RETRIES
              /\ hist.details = 0
              /\ hist.lastStatus \notin (SuccessStatuses \cup FailureStatuses)
              /\ pc \in {"poll", "done"}
              /\ pc = "done" => outcome = "CommandTimeOut" /\ hist.raisedBy = "poll"
        /\ hist.raisedBy = "poll" =>
              /\ num_retries = HTTP_MAX_RETRIES
              /\ outcome = "CommandTimeOut"

\* Every poll answered with an unrecognized value.
C3_Witness ==
    /\ op = "perform"
    /\ pc = "done"
    /\ hist.raisedBy = "poll"
    /\ hist.lastStatus = "QUEUED"
    /\ hist.checks = HTTP_MAX_RETRIES
    /\ outcome = "CommandTimeOut"

\* C4 -- Submit failure.  A submit response whose envelope status is not
\* SUCCESS ends the call at once with CommandFailed (406): one submit, no
\* check, no refresh.
C4_SubmitFailure ==
    (hist.phase = "submit" /\ hist.envelope \notin {"none", "SUCCESS"}) =>
        /\ pc = "done"
        /\ outcome = "CommandFailed"
        /\ hist.raisedBy = "submit"
        /\ hist.submits = 1
        /\ hist.checks = 0
        /\ hist.details = 0
        /\ call.purpose = "submit"

\* A failed submit of an action, after one transport retry.
C4_Witness ==
    /\ op = "perform"
    /\ pc = "done"
    /\ hist.raisedBy = "submit"
    /\ hist.envelope = "FAILED"
    /\ call.num_retries = 1

\* C5 -- Transport retry exhaustion.  In get/post/delete a retryable status
\* (406, 408, 429, 500, 502) is never raised as such: the call sleeps once
\* and goes round the loop; a sleep lies between any two requests; at most
\* HTTP_MAX_RETRIES requests are issued; and when every one of them was
\* answered with a retryable status the call raises CommandTimeOut.
C5_RetryExhaustion ==
    /\ call.reqs <= HTTP_MAX_RETRIES
    /\ call.sleeps = call.num_retries
    /\ call.reqs <= call.sleeps + 1
    /\ call.last \in RetryableCodes =>
          /\ call.reqs = call.num_retries
          /\ \/ pc = "loop"
             \/ /\ pc = "done"
                /\ hist.raisedBy = "exhausted"
    /\ (pc = "done" /\ hist.raisedBy = "exhausted") =>
          /\ outcome = "CommandTimeOut"
          /\ call.reqs = HTTP_MAX_RETRIES
          /\ call.sleeps = HTTP_MAX_RETRIES
          /\ call.last \in RetryableCodes
    /\ (pc = "loop" /\ call.num_retries = HTTP_MAX_RETRIES) =>
          call.reqs = HTTP_MAX_RETRIES

\* A delete answered 429 on every attempt.
C5_Witness ==
    /\ pc = "done"
    /\ hist.raisedBy = "exhausted"
    /\ call.verb = "delete"
    /\ call.last = 429
    /\ call.reqs = HTTP_MAX_RETRIES
    /\ outcome = "CommandTimeOut"

\* C6 -- Transport non-retryable errors.  In get/post/delete the first
\* response with status 400, 401, 403, 404, 405, 415 or 424 ends the call
\* with the error named for that status: no request and no sleep follows it
\* (one request more than sleeps so far).
C6_NonRetryable ==
    call.last \in NonRetryableCodes =>
        /\ pc = "done"
        /\ hist.raisedBy = "transport"
        /\ outcome = NamedError(call.last)
        /\ call.sleeps = call.num_retries
        /\ call.reqs = call.num_retries + 1

\* A get answered 404 after one retryable answer.
C6_Witness ==
    /\ pc = "done"
    /\ call.verb = "get"
    /\ call.last = 404
    /\ call.num_retries = 1
    /\ outcome = "VehicleNotFound"

\* C7 -- Token gate decision.  With t the time check_authentication read and
\* b the token fields at its entry (both expirations set): if t >=
\* refresh-expiry it starts exactly one authenticate and no refresh;
\* otherwise if t >= access-expiry exactly one refresh_access_token and no
\* authenticate; otherwise nothing, and the token fields stay as they were.
C7_TokenGate ==
    /\ gate.auths + gate.refreshes <= 1
    /\ gate.decision = "authenticate" => gate.auths = 1
    /\ gate.decision = "refresh_access_token" => gate.refreshes = 1
    /\ gate.changed => (gate.decision # "noop" /\ gate.decision # "TypeError")
    /\ (gate.decision # "none" /\ ~gate.changed
        /\ gate.before.refresh_token_expiration # None
        /\ gate.before.token_expiration # None) =>
          IF gate.t >= gate.before.refresh_token_expiration
          THEN gate.auths = 1 /\ gate.refreshes = 0
          ELSE IF gate.t >= gate.before.token_expiration
          THEN gate.refreshes = 1 /\ gate.auths = 0
          ELSE /\ gate.auths = 0
               /\ gate.refreshes = 0
               /\ client = gate.before
               /\ gateDepth = 0

\* The refresh exchange of a gate that found only the access token expired
\* has been answered.
C7_Witness ==
    /\ pc = "ret"
    /\ call.purpose = "refresh_token"
    /\ gate.refreshes = 1
    /\ gate.auths = 0
    /\ gate.t >= gate.before.token_expiration
    /\ gate.t < gate.before.refresh_token_expiration

\* C8 -- Every authenticated request carries the access token the client
\* holds when the request is sent (the token after the gate has run).
C8_RequestCarriesHeldToken ==
    hist.sent =>
        /\ hist.sentAuth.auth
        /\ hist.sentAuth.access_token = hist.sentHeld.access_token

\* C9 -- Every get/post/delete to an authenticated endpoint has invoked
\* check_authentication exactly once before its first request; the two
\* token-exchange posts bypass it; the gate is never entered from within
\* the gate.
C9_GateOncePerCall ==
    /\ gateDepth <= 1
    /\ call.gates <= 1
    /\ IsExchange(call) => (call.bypass /\ call.gates = 0)
    /\ (call.purpose \in {"submit", "check", "detail", "delete"}
        /\ pc \in {"gate", "loop", "ret", "done"}) => call.gates = 1
    /\ (call.purpose \in {"submit", "check", "detail", "delete"}
        /\ call.gates = 0) => call.reqs = 0
    /\ saved # NoCall =>
          /\ saved.purpose \in {"submit", "check", "detail", "delete"}
          /\ saved.gates = 1
          /\ saved.reqs = 0
          /\ IsExchange(call)
          /\ gateDepth = 1

\* A submit about to send its first request after its gate exchanged tokens.
C9_Witness ==
    /\ pc = "loop"
    /\ call.purpose = "submit"
    /\ call.gates = 1
    /\ call.reqs = 0
    /\ gate.changed
    /\ gateDepth = 0

\* C10 -- Capability precondition.  start_charge / stop_charge and their
\* request and check functions, called on a vehicle whose is_ev is False,
\* raise MethodNotAllowed (405) in the calling step itself: no transport
\* call is entered, no gate, exchange, submit, check or refresh happens, and
\* vehicle and token state are unchanged.
C10_ChargeCapabilityStep ==
    (/\ pc = "idle"
     /\ op' \in {"perform", "request", "check"}
     /\ action' \in ChargeActions
     /\ vehicle.is_ev = "False") =>
        /\ pc' = "done"
        /\ outcome' = "MethodNotAllowed"
        /\ hist'.submits = 0 /\ hist'.checks = 0 /\ hist'.details = 0
        /\ ~hist'.sent
        /\ call' = NoCall
        /\ saved' = NoCall
        /\ gateDepth' = 0
        /\ gate' = GateInit
        /\ vehicle' = vehicle
        /\ client' = client
        /\ nextTok' = nextTok

C10_ChargeCapability == [][C10_ChargeCapabilityStep]_vars

\* check_stop_charge refused on a vehicle that is not electric.
C10_Witness ==
    /\ pc = "done"
    /\ op = "check"
    /\ action = "stop_charge"
    /\ vehicle.is_ev = "False"
    /\ outcome = "MethodNotAllowed"
    /\ hist.raisedBy = "capability"

\* The named error kinds of the taxonomy (the classes of utils.py).
ClassifiedErrors ==
    {"BadRequest", "Unauthorized", "Forbidden", "VehicleNotFound",
     "MethodNotAllowed", "UnsupportedMediaType", "FailureDependency",
     "TooManyRequests", "InternalServerError", "BadGateway", "CommandTimeOut",
     "CommandFailed"}

\* C11 -- No partial results.  A vehicle action that has ended either
\* returned normally, and then its command reached terminal success and the
\* snapshot was refreshed from the server after it, or it raised one of the
\* classified errors.
C11_NoPartialResults ==
    (op = "perform" /\ pc = "done") =>
        \/ /\ outcome = "returned"
           /\ hist.lastStatus \in SuccessStatuses
           /\ hist.details = 1
           /\ hist.phase = "detail"
           /\ vehicle.is_detailed
        \/ outcome \in ClassifiedErrors

\* C12 -- Total classification.  Whatever status >= 400 a get/post/delete
\* received last, the call either goes round its loop again or has raised
\* one of the classified errors.
C12_TotalClassification ==
    call.last >= 400 =>
        \/ pc = "loop"
        \/ pc = "done" /\ outcome \in ClassifiedErrors

\* C13 -- Atomic token replacement.  The token fields always come from one
\* and the same exchange response: in every state the four token-valued
\* fields carry the same generation (all None before the first exchange).
C13_AtomicTokens ==
    /\ client.refresh_token = client.access_token
    /\ client.id_token = client.access_token
    /\ client.token_type = client.access_token
    /\ (client.access_token = None) <=> (client.token_expiration = None)
    /\ (client.access_token = None) <=> (client.refresh_token_expiration = None)

\* C14 -- Token-state invariant.  Once both expirations are set, the
\* access-token expiration is not later than the refresh-token expiration.
C14_ExpiryOrder ==
    (client.token_expiration # None /\ client.refresh_token_expiration # None) =>
        client.token_expiration <= client.refresh_token_expiration

TableCodes == {400, 401, 403, 404, 405, 406, 408, 415, 424, 429, 500, 502}

TableKind(code) ==
    CASE code = 406 -> "CommandFailed"
      [] code = 408 -> "CommandTimeOut"
      [] code = 429 -> "TooManyRequests"
      [] code = 500 -> "InternalServerError"
      [] code = 502 -> "BadGateway"
      [] OTHER -> NamedError(code)

\* C15 -- Classification table.  The lookup of the transport gives each of
\* the twelve status codes the error kind of the table, retryable exactly
\* for 406, 408, 429, 500 and 502; and a response with one of these codes is
\* handled by its flag: a retryable one keeps the call in its loop (or the
\* call is exhausted), any other ends the call with the error of that kind.
C15_ClassificationTable ==
    /\ HTTP_EXCEPTION_KEYS = TableCodes
    /\ \A code \in TableCodes :
          /\ HTTP_EXCEPTION_DICT(code) = TableKind(code)
          /\ can_retry(HTTP_EXCEPTION_DICT(code)) <=> code \in RetryableCodes
    /\ call.last \in TableCodes =>
          IF can_retry(raise_http_exception(call.last))
          THEN /\ call.last \in RetryableCodes
               /\ \/ pc = "loop"
                  \/ pc = "done" /\ hist.raisedBy = "exhausted"
          ELSE /\ call.last \in NonRetryableCodes
               /\ pc = "done"
               /\ hist.raisedBy = "transport"
               /\ outcome = TableKind(call.last)

\* A check answered 406 (Command Failed) by the transport: the call is
\* still in its loop, about to try again.
C15_Witness ==
    /\ pc = "loop"
    /\ call.purpose = "check"
    /\ call.last = 406
    /\ call.num_retries = 1
    /\ TransportContinue(call.num_retries)

\* C18 -- Check-envelope failure.  In __perform_job a check response whose
\* envelope status is not SUCCESS ends the call at that attempt with
\* CommandFailed: the attempt counter was not advanced for it (one check more
\* than still-running answers), no check follows and no detail refresh is
\* made.
C18_CheckEnvelopeFailure ==
    (op = "perform" /\ hist.phase = "check"
        /\ hist.envelope \notin {"none", "SUCCESS"}) =>
        /\ pc = "done"
        /\ outcome = "CommandFailed"
        /\ hist.raisedBy = "check"
        /\ hist.checks = num_retries + 1
        /\ hist.details = 0
        /\ call.purpose = "check"

\* The second check of an action answered with a FAILED envelope.
C18_Witness ==
    /\ op = "perform"
    /\ pc = "done"
    /\ hist.raisedBy = "check"
    /\ hist.envelope = "FAILED"
    /\ hist.checks = 2
    /\ num_retries = 1

\* C19 -- Retry then success.  When get/post/delete receives a response with
\* status below 400 after k retryable ones (k below HTTP_MAX_RETRIES), the
\* call returns to its caller: k + 1 requests were issued, k sleeps made,
\* and nothing was raised by the transport.
C19_RetryThenSuccess ==
    (call.reqs > 0 /\ call.last < 400) =>
        /\ pc # "loop"
        /\ call.num_retries < HTTP_MAX_RETRIES
        /\ call.reqs = call.num_retries + 1
        /\ call.sleeps = call.num_retries
        /\ hist.raisedBy \notin {"transport", "exhausted"}
        /\ pc = "ret" => outcome = "none"

\* A post answered below 400 after one retryable answer, returning.
C19_Witness ==
    /\ pc = "ret"
    /\ call.verb = "post"
    /\ call.purpose = "submit"
    /\ call.num_retries = 1
    /\ call.last = 200

\* C20 -- Transport error inside the poll loop.  In __perform_job an error
\* raised by the get of a check (a non-retryable status or exhaustion) ends
\* the call with that error at that attempt: the attempt counter was not
\* advanced for it, no check follows and no detail refresh is made.
C20_PollTransportError ==
    (op = "perform" /\ hist.phase = "check"
        /\ hist.raisedBy \in {"transport", "exhausted"}) =>
        /\ pc = "done"
        /\ hist.raisedBy = "exhausted" => outcome = "CommandTimeOut"
        /\ (hist.raisedBy = "transport" /\ call.last \in NonRetryableCodes) =>
              outcome = NamedError(call.last)
        /\ outcome \notin {"none", "returned"}
        /\ hist.checks = num_retries + 1
        /\ hist.details = 0

\* The second check of an action answered 403.
C20_Witness ==
    /\ op = "perform"
    /\ pc = "done"
    /\ hist.phase = "check"
    /\ hist.raisedBy = "transport"
    /\ call.purpose = "check"
    /\ call.last = 403
    /\ hist.checks = 2
    /\ num_retries = 1

\* The call the running public method made itself: inside a token exchange
\* started by the gate, the call that waits for it.
OuterCall == IF saved # NoCall THEN saved ELSE call

\* Steps a get/post/delete can still take before its caller has handled
\* its return, counted from the position pc in call c.
OwnRank(c, p) ==
    CASE p = "ret" -> 1
      [] p = "loop" -> (HTTP_MAX_RETRIES - c.num_retries) + 2
      [] p = "gate" -> 2 * HTTP_MAX_RETRIES + 6
      [] p = "enter" -> IF c.bypass THEN HTTP_MAX_RETRIES + 3
                        ELSE 2 * HTTP_MAX_RETRIES + 7
      [] OTHER -> 0

CallMax == 2 * HTTP_MAX_RETRIES + 7

CallRank ==
    IF saved # NoCall THEN OwnRank(call, pc) + OwnRank(saved, "loop")
    ELSE OwnRank(call, pc)

\* Steps __perform_job can still take from the head of its while loop with
\* the attempt counter at n: the passes left, the raise after the loop, and
\* the refresh.
PollRank(n) == (HTTP_MAX_RETRIES - n) * (CallMax + 1) + 1 + CallMax

\* A bound on the steps the running invocation can still take.
Rank ==
    CASE pc \in {"idle", "done"} -> 0
      [] pc = "poll" -> PollRank(num_retries)
      [] OTHER ->
           CallRank +
             (IF op # "perform" THEN 0
              ELSE CASE OuterCall.purpose = "submit" -> PollRank(0)
                     [] OuterCall.purpose = "check" -> PollRank(num_retries + 1)
                     [] OTHER -> 0)

Running == pc \notin {"idle", "done"}

C16_RankStep == Running => Rank' < Rank

\* C16 -- Run to completion.  Every invocation ends: while a public method
\* runs a step is always possible (every request and sleep returns), and
\* each step lowers a bound on the steps left, which never goes below zero;
\* at the end the caller holds a result or an error.
C16_RunToCompletion ==
    /\ [](Rank >= 0)
    /\ [](Running => ENABLED Next)
    /\ [](pc = "done" => outcome # "none")
    /\ [][C16_RankStep]_vars

\* An action in its last poll pass, the check in its last transport pass.
C16_Witness ==
    /\ op = "perform"
    /\ pc = "loop"
    /\ call.purpose = "check"
    /\ num_retries = HTTP_MAX_RETRIES - 1
    /\ call.num_retries = HTTP_MAX_RETRIES - 1
    /\ Rank > 0

\* C17 -- Snapshot merge.  An update of the vehicle (populate or
\* populate_details) keeps every key the stored raw_json held and the
\* update's object does not contain, with its previous value.
C17_SnapshotMergeStep ==
    (vehicle' # vehicle /\ vehicle.raw_json # RawNone) =>
        \A k \in DOMAIN vehicle.raw_json \ DOMAIN obj' :
            /\ vehicle'.raw_json # RawNone
            /\ k \in DOMAIN vehicle'.raw_json
            /\ vehicle'.raw_json[k] = vehicle.raw_json[k]

C17_SnapshotMerge == [][C17_SnapshotMergeStep]_vars

\* C21 -- Bounded network use.  With M = HTTP_MAX_RETRIES, one invocation of
\* a vehicle action makes one submit, at most M checks and one refresh; each
\* get/post issues at most M requests; so the invocation issues at most
\* M * (M + 2) requests outside token exchanges; and the passes of the
\* transport loop inside a check leave the poll counter alone (it counts
\* the checks that returned, one less than the checks made).
C21_BoundedNetworkUse ==
    op = "perform" =>
        /\ hist.submits <= 1
        /\ hist.checks <= HTTP_MAX_RETRIES
        /\ hist.details <= 1
        /\ call.reqs <= HTTP_MAX_RETRIES
        /\ requests <= HTTP_MAX_RETRIES * (hist.submits + hist.checks + hist.details)
        /\ requests <= HTTP_MAX_RETRIES * (HTTP_MAX_RETRIES + 2)
        /\ (hist.phase = "check" /\ pc \in {"enter", "gate", "loop", "ret"}) =>
              num_retries = hist.checks - 1

\* An action that returned after using every request it can: the submit,
\* every check and the refresh each answered on their last pass.
C21_Witness ==
    /\ op = "perform"
    /\ pc = "done"
    /\ outcome = "returned"
    /\ hist.checks = HTTP_MAX_RETRIES
    /\ requests = HTTP_MAX_RETRIES * (HTTP_MAX_RETRIES + 2)

\* C22 -- Never-authenticated client.  When the gate runs on a client whose
\* token fields are all as the constructor left them, it takes the branch
\* of the full re-authentication: the call does not fail in the gate, and
\* no request goes out whose Authorization header was built from the unset
\* fields.
C22_NeverAuthenticated ==
    /\ (gate.before = ClientInit /\ gate.decision # "none") =>
          /\ gate.decision = "authenticate"
          /\ ~(pc = "done" /\ hist.raisedBy = "gate" /\ outcome = "TypeError")
    /\ hist.sent => hist.sentAuth.access_token # None

\* C23 -- EV flag stability.  On a vehicle whose is_ev was set by
\* populate_details, a populate (the step the user makes between two calls)
\* leaves is_ev as it was, so the test that opens the charge actions gives
\* what it gave before.
C23_EvFlagStableStep ==
    (pc = "idle" /\ pc' = "idle" /\ vehicle.is_detailed) =>
        /\ vehicle'.is_ev = vehicle.is_ev
        /\ \A a \in ChargeActions :
              CapabilityCheck(a, vehicle') = CapabilityCheck(a, vehicle)

C23_EvFlagStable == [][C23_EvFlagStableStep]_vars

\* C24 -- fetch_vehicles is all-or-nothing.  When fetch_vehicles has raised,
\* Client.vehicles is what it was when the method was entered; when it has
\* returned, Client.vehicles holds one detailed vehicle per entry of the
\* server's list, in the order of the list.
C24_FetchAllOrNothing ==
    (op = "fetch_vehicles" /\ pc = "done") =>
        IF outcome = "returned"
        THEN /\ Len(vehicles) = Len(fetch.list)
             /\ \A i \in 1..Len(vehicles) :
                   /\ vehicles[i].id = fetch.list[i]
                   /\ vehicles[i].v.is_detailed
                   /\ vehicles[i].v.raw_json # RawNone
        ELSE vehicles = fetch.before
====
